---- MODULE Spec2Model ----
(***************************************************************************)
(* PersonaPlex API gateway (src/api_gateway.py).                           *)
(*                                                                         *)
(* Three parts of the program are modelled:                                *)
(*   - APIKeyManager: hashed key records, the per-key sliding rate window  *)
(*     and the key file (specification Spec);                              *)
(*   - websocket_stream: one relay session between a client websocket and  *)
(*     the Moshi backend websocket (RelaySpec, FairRelaySpec);             *)
(*   - offline_inference: one file-based inference job (JobSpec,           *)
(*     FairJobSpec).                                                       *)
(* AdmissionSpec runs a streaming request and a job request together up to *)
(* the allocation of their resources; CrashSpec adds a restart of the      *)
(* process to the key manager.                                             *)
(***************************************************************************)
EXTENDS Integers, Sequences, FiniteSets, TLC

(***************************************************************************)
(* Bounds of the model.                                                    *)
(***************************************************************************)
TickStep == 30        \* seconds the clock advances in one Tick
MaxTicks == 2         \* ticks of the clock in one behaviour
MaxWriteFaults == 1   \* writes of the key file that fail in one behaviour
MaxRestarts == 1      \* restarts of the gateway process in one behaviour

(***************************************************************************)
(* Program constants.  RATE_LIMIT_RPM is read from the environment         *)
(* (default 60); the model runs the gateway configured with the value      *)
(* below.                                                                  *)
(***************************************************************************)
RATE_LIMIT_RPM == 2
WINDOW_SECONDS == 60

VARIABLES
    keys,           \* APIKeyManager.keys: digest -> record
    rate_tracker,   \* APIKeyManager.rate_tracker: digest -> timestamps
    keys_file,      \* content of the key file (last successful json.dump)
    writeFaults,    \* writes of the key file that have failed so far
    restarts,       \* restarts of the gateway process so far
    now,            \* datetime.now(timezone.utc).timestamp()
    last,           \* the last APIKeyManager call and what it returned
    issued,         \* plaintext keys generate_key has returned
    revoked,        \* issued plaintext keys revoke_key has been called on
    passed          \* per plaintext key, instants at which line 127 ran

kmVars == <<keys, rate_tracker, keys_file, writeFaults, restarts, now, last,
            issued, revoked, passed>>

\* The plaintext keys secrets.token_urlsafe draws and callers present.
KeyPool == {"ppx-1", "ppx-2"}

Names == {"svc-a"}

\* _hash_key: the hex SHA-256 digest of the plaintext (collision free).
_hash_key(api_key) == "sha256:" \o api_key

MaxTime == TickStep * MaxTicks

(***************************************************************************)
(* APIKeyManager                                                           *)
(***************************************************************************)

\* A call returns a record ("entry"), None, a plaintext key, True/False, a
\* list ("list"), or raises ("raise").
NoCall == [op |-> "none", key |-> "", result |-> "none"]

\* The metadata generate_key stores for a new key (lines 105-111).  The
\* fields description and created are written here once and no operation's
\* outcome depends on them; the record keeps the fields the operations read.
NewEntry(name) ==
    [name |-> name, active |-> TRUE, usage_count |-> 0]

\* self.keys.get(key_hash) is a record and entry.get("active", False) holds.
EntryActive_NoActiveCheck(ks, key_hash) == key_hash \in DOMAIN ks

EntryActive(ks, key_hash) ==
    key_hash \in DOMAIN ks /\ ks[key_hash].active

\* self.rate_tracker.get(key_hash, [])
WindowOf_Stale(rt, key_hash) == <<>>

WindowOf(rt, key_hash) ==
    IF key_hash \in DOMAIN rt THEN rt[key_hash] ELSE <<>>

\* [t for t in window if now - t < 60]
PruneWindow_KeepAll(window, t) == window

PruneWindow(window, t) ==
    SelectSeq(window, LAMBDA x : t - x < WINDOW_SECONDS)

\* len(window) >= RATE_LIMIT_RPM
RateLimited_OffByOne(window) == Len(window) > RATE_LIMIT_RPM

RateLimited_Never(window) == FALSE

RateLimited(window) == Len(window) >= RATE_LIMIT_RPM

\* entry["usage_count"] = entry.get("usage_count", 0) + 1
IncrementUsage_Twice(entry) ==
    [entry EXCEPT !.usage_count = @ + 2]

IncrementUsage(entry) ==
    [entry EXCEPT !.usage_count = @ + 1]

\* self.keys[key_hash]["active"] = False
Deactivate_Toggle(entry) == [entry EXCEPT !.active = ~@]

Deactivate(entry) == [entry EXCEPT !.active = FALSE]

\* d[k] = v on a Python dict.
Put(d, k, v) == [x \in DOMAIN d \cup {k} |-> IF x = k THEN v ELSE d[x]]

\* _save_keys: json.dump of self.keys into the key file.  The write either
\* succeeds (wok) or open() raises and the file keeps its content.
SaveKeys_WriteAhead(ks, wok) ==
    /\ ~wok => writeFaults < MaxWriteFaults
    /\ writeFaults' = IF wok THEN writeFaults ELSE writeFaults + 1
    /\ keys_file' = IF wok THEN [h \in DOMAIN ks |-> IncrementUsage(ks[h])]
                   ELSE keys_file

SaveKeys(ks, wok) ==
    /\ ~wok => writeFaults < MaxWriteFaults
    /\ writeFaults' = IF wok THEN writeFaults ELSE writeFaults + 1
    /\ keys_file' = IF wok THEN ks ELSE keys_file

\* What a method returns after its call of _save_keys: no method catches
\* the exception of a failed write, so it leaves the method in place of the
\* value.
AfterSave_Swallowed(value, wok) == value

AfterSave(value, wok) == IF wok THEN value ELSE "raise"

\* The state after APIKeyManager(API_KEYS_FILE) with no key file present:
\* _load_keys creates the empty store.
KmInit ==
    /\ keys = <<>>
    /\ rate_tracker = <<>>
    /\ keys_file = <<>>
    /\ writeFaults = 0
    /\ restarts = 0
    /\ now = 0
    /\ last = NoCall
    /\ issued = {}
    /\ revoked = {}
    /\ passed = [k \in KeyPool |-> <<>>]

\* generate_key(name): the drawn plaintext is one never drawn before.
GenerateKey(raw_key, name, wok) ==
    LET key_hash == _hash_key(raw_key)
        ks == Put(keys, key_hash, NewEntry(name))
    IN  /\ key_hash \notin DOMAIN keys
        /\ keys' = ks
        /\ SaveKeys(ks, wok)
        /\ issued' = IF wok THEN issued \cup {raw_key} ELSE issued
        /\ last' = [op |-> "generate_key", key |-> raw_key,
                    result |-> AfterSave(raw_key, wok)]
        /\ UNCHANGED <<restarts, rate_tracker, now, revoked, passed>>

\* validate_key(api_key)
ValidateKey(api_key, wok) ==
    LET key_hash == _hash_key(api_key)
        window == PruneWindow(WindowOf(rate_tracker, key_hash), now)
    IN  IF EntryActive(keys, key_hash)
        THEN IF RateLimited(window)
             THEN /\ last' = [op |-> "validate_key", key |-> api_key,
                              result |-> "None"]
                  /\ UNCHANGED <<keys, rate_tracker, keys_file, writeFaults,
                                 now, issued, revoked, passed, restarts>>
             ELSE LET ks == [keys EXCEPT
                                ![key_hash] = IncrementUsage(keys[key_hash])]
                  IN  /\ rate_tracker' =
                            Put(rate_tracker, key_hash, Append(window, now))
                      /\ passed' =
                            [passed EXCEPT ![api_key] = Append(@, now)]
                      /\ keys' = ks
                      /\ SaveKeys(ks, wok)
                      /\ last' = [op |-> "validate_key", key |-> api_key,
                                  result |-> AfterSave("entry", wok)]
                      /\ UNCHANGED <<restarts, now, issued, revoked>>
        ELSE /\ last' = [op |-> "validate_key", key |-> api_key,
                              result |-> "None"]
             /\ UNCHANGED <<keys, rate_tracker, keys_file, writeFaults, now,
                            issued, revoked, passed, restarts>>

\* revoke_key(api_key)
RevokeKey(api_key, wok) ==
    LET key_hash == _hash_key(api_key)
    IN  IF key_hash \in DOMAIN keys
        THEN LET ks == [keys EXCEPT
                           ![key_hash] = Deactivate(keys[key_hash])]
             IN  /\ keys' = ks
                 /\ SaveKeys(ks, wok)
                 /\ revoked' = IF api_key \in issued
                               THEN revoked \cup {api_key} ELSE revoked
                 /\ last' = [op |-> "revoke_key", key |-> api_key,
                             result |-> AfterSave("True", wok)]
                 /\ UNCHANGED <<restarts, rate_tracker, now, issued, passed>>
        ELSE /\ last' = [op |-> "revoke_key", key |-> api_key,
                         result |-> "False"]
             /\ UNCHANGED <<keys, rate_tracker, keys_file, writeFaults, now,
                            issued, revoked, passed, restarts>>

\* list_keys(): reads self.keys, changes nothing.
ListKeys ==
    /\ last' = [op |-> "list_keys", key |-> "", result |-> "list"]
    /\ UNCHANGED <<keys, rate_tracker, keys_file, writeFaults, now, issued,
                   revoked, passed, restarts>>

\* The wall clock advances.
Tick ==
    /\ now + TickStep <= MaxTime
    /\ now' = now + TickStep
    /\ UNCHANGED <<keys, rate_tracker, keys_file, writeFaults, last, issued,
                   revoked, passed, restarts>>

\* The gateway process stops (a crash or a shutdown) and is started again:
\* __init__ builds empty dicts and _load_keys reads the key file, so the
\* records are those of the last successful write and every rate window
\* is gone.  A stop between the rate check of validate_key and its write
\* is a ValidateKey whose write fails followed by this step.
Restart ==
    /\ restarts < MaxRestarts
    /\ restarts' = restarts + 1
    /\ keys' = keys_file
    /\ rate_tracker' = <<>>
    /\ last' = [op |-> "restart", key |-> "", result |-> "none"]
    /\ UNCHANGED <<keys_file, writeFaults, now, issued, revoked, passed>>

(***************************************************************************)
(* websocket_stream: one relay session.                                    *)
(*                                                                         *)
(* The handler runs on the asyncio event loop: it is modelled one step per *)
(* await.  The client and the backend are peers the gateway does not       *)
(* control: they send frames and disconnect when they choose.              *)
(***************************************************************************)
MaxFrames == 2        \* frames each peer sends in one session
MAX_SIZE == 1048576   \* max_size=2**20 of the backend connection, in bytes

VARIABLES
    wsPc,           \* position of the websocket_stream handler
    backend_ws,     \* the handler's local backend_ws: "None" or "conn"
    clientConn,     \* the client connection: "none", "open", "closed"
    backendConn,    \* the backend connection: "none", "open", "closed"
    c2b,            \* client_to_backend task: "idle", "recv", "send", "done"
    b2c,            \* backend_to_client task: "idle", "recv", "send", "done"
    c2bData,        \* `data` held by client_to_backend
    b2cMsg,         \* `message` held by backend_to_client
    clientOut,      \* frames the client has sent, not yet received
    backendIn,      \* frames delivered to the backend, in order
    backendOut,     \* frames the backend has sent, not yet received
    clientIn,       \* frames delivered to the client, in order
    clientSent,     \* every frame the client has sent, in order
    backendSent,    \* every frame the backend has sent, in order
    fault,          \* a peer dropped, the connect failed or a close raised
    closeReason     \* reason of the close frame sent on a denied admission

relayVars == <<wsPc, backend_ws, clientConn, backendConn, c2b, b2c, c2bData,
               b2cMsg, clientOut, backendIn, backendOut, clientIn,
               clientSent, backendSent, fault, closeReason>>

Kinds == {"bytes", "text"}

\* Payload sizes in bytes: one the limit allows and one above it.
Sizes == {1, MAX_SIZE + 1}

NoFrame == [kind |-> "none", id |-> 0, size |-> 0]

\* Line 246: the reason of the close frame, the same literal for every
\* denial.
DENIAL_REASON == "Invalid or rate-limited API key"

RelayInit ==
    /\ wsPc = "idle"
    /\ backend_ws = "None"
    /\ clientConn = "none"
    /\ backendConn = "none"
    /\ c2b = "idle"
    /\ b2c = "idle"
    /\ c2bData = NoFrame
    /\ b2cMsg = NoFrame
    /\ clientOut = <<>>
    /\ backendIn = <<>>
    /\ backendOut = <<>>
    /\ clientIn = <<>>
    /\ clientSent = <<>>
    /\ backendSent = <<>>
    /\ fault = FALSE
    /\ closeReason = ""

\* Lines 244-249: validate the key; on None close with code 4001 and
\* return, otherwise accept the client connection.  A validate_key that
\* raises ends the handler before the accept.
WsAfterValidate_NoReturn(result) ==
    IF result = "raise" THEN "raised_early" ELSE "connect"

WsAfterValidate(result) ==
    CASE result = "entry" -> "connect"
      [] result = "None" -> "denied"
      [] OTHER -> "raised_early"

WsAdmit(api_key, wok) ==
    /\ wsPc = "idle"
    /\ ValidateKey(api_key, wok)
    /\ wsPc' = WsAfterValidate(last'.result)
    /\ clientConn' = IF last'.result = "entry" THEN "open" ELSE "closed"
    /\ closeReason' = IF last'.result = "None" THEN DENIAL_REASON ELSE ""
    /\ UNCHANGED <<backend_ws, backendConn, c2b, b2c, c2bData, b2cMsg,
                   clientOut, backendIn, backendOut, clientIn, clientSent,
                   backendSent, fault>>

\* Lines 256-292: websockets.connect succeeds and gather starts both copy
\* tasks, or it raises and `except Exception` leads to the finally block.
BackendConnect(ok) ==
    /\ wsPc = "connect"
    /\ IF ok
       THEN /\ backend_ws' = "conn"
            /\ backendConn' = "open"
            /\ c2b' = "recv"
            /\ b2c' = "recv"
            /\ wsPc' = "gather"
            /\ UNCHANGED fault
       ELSE /\ wsPc' = "finally_backend"
            /\ fault' = TRUE
            /\ UNCHANGED <<backend_ws, backendConn, c2b, b2c>>
    /\ UNCHANGED <<clientConn, c2bData, b2cMsg, clientOut, backendIn,
                   backendOut, clientIn, clientSent, backendSent,
                   closeReason>>

\* Line 267, data = await websocket.receive_bytes(): the next frame of the
\* client when it is binary; a text frame carries no "bytes" and the call
\* raises (or yields None, which backend_ws.send rejects), and a client
\* that has disconnected raises WebSocketDisconnect: both end the task in
\* its except clauses, the text frame being dropped.
ReceiveBytesOk(frame) == frame.kind = "bytes"

C2BRecv ==
    /\ c2b = "recv"
    /\ IF clientOut # <<>>
       THEN /\ clientOut' = Tail(clientOut)
            /\ IF ReceiveBytesOk(Head(clientOut))
               THEN c2bData' = Head(clientOut) /\ c2b' = "send"
               ELSE c2bData' = NoFrame /\ c2b' = "done"
       ELSE /\ clientConn = "closed"
            /\ c2b' = "done"
            /\ UNCHANGED <<clientOut, c2bData>>
    /\ UNCHANGED <<wsPc, backend_ws, clientConn, backendConn, b2c, b2cMsg,
                   backendIn, backendOut, clientIn, clientSent, backendSent,
                   fault, closeReason>>

\* Line 268, await backend_ws.send(data): delivered while the backend
\* connection is open, otherwise ConnectionClosed ends the task.
C2BSend ==
    /\ c2b = "send"
    /\ IF backendConn = "open"
       THEN backendIn' = Append(backendIn, c2bData) /\ c2b' = "recv"
       ELSE backendIn' = backendIn /\ c2b' = "done"
    /\ c2bData' = NoFrame
    /\ UNCHANGED <<wsPc, backend_ws, clientConn, backendConn, b2c, b2cMsg,
                   clientOut, backendOut, clientIn, clientSent, backendSent,
                   fault, closeReason>>

\* Line 259, max_size=2**20: the websockets connection rejects an incoming
\* message longer than max_size.  Nothing limits what receive_bytes takes
\* from the client (line 267) or what backend_ws.send sends (line 268).
WithinMaxSize(frame) == frame.size <= MAX_SIZE

\* Line 277, async for message in backend_ws: the next frame of the
\* backend, or the end of the iteration once the connection is closed.  A
\* frame above max_size is not delivered: the library fails the connection
\* (close code 1009) and the iteration raises ConnectionClosed.
B2CRecv ==
    /\ b2c = "recv"
    /\ IF backendOut # <<>>
       THEN IF WithinMaxSize(Head(backendOut))
            THEN /\ backendOut' = Tail(backendOut)
                 /\ b2cMsg' = Head(backendOut)
                 /\ b2c' = "send"
                 /\ UNCHANGED <<backendConn, fault>>
            ELSE /\ backendOut' = <<>>
                 /\ backendConn' = "closed"
                 /\ fault' = TRUE
                 /\ b2c' = "done"
                 /\ UNCHANGED b2cMsg
       ELSE /\ backendConn = "closed"
            /\ b2c' = "done"
            /\ UNCHANGED <<backendOut, b2cMsg, backendConn, fault>>
    /\ UNCHANGED <<wsPc, backend_ws, clientConn, c2b, c2bData,
                   clientOut, backendIn, clientIn, clientSent, backendSent,
                   closeReason>>

\* Lines 278-281: a bytes message goes out with send_bytes, any other with
\* send_text.
ForwardedKind(message) ==
    IF message.kind = "bytes" THEN "bytes" ELSE "text"

\* Lines 278-285: forward to the client while its connection is open,
\* otherwise the send raises and the task ends.
B2CSend ==
    /\ b2c = "send"
    /\ IF clientConn = "open"
       THEN /\ clientIn' = Append(clientIn,
                               [b2cMsg EXCEPT !.kind = ForwardedKind(b2cMsg)])
            /\ b2c' = "recv"
       ELSE clientIn' = clientIn /\ b2c' = "done"
    /\ b2cMsg' = NoFrame
    /\ UNCHANGED <<wsPc, backend_ws, clientConn, backendConn, c2b, c2bData,
                   clientOut, backendIn, backendOut, clientSent, backendSent,
                   fault, closeReason>>

\* Lines 288-292: asyncio.gather returns once both tasks have finished.
GatherDone == c2b = "done" /\ b2c = "done"

GatherReturn ==
    /\ wsPc = "gather"
    /\ GatherDone
    /\ wsPc' = "finally_backend"
    /\ UNCHANGED <<backend_ws, clientConn, backendConn, c2b, b2c, c2bData,
                   b2cMsg, clientOut, backendIn, backendOut, clientIn,
                   clientSent, backendSent, fault, closeReason>>

\* Lines 297-298: if backend_ws: await backend_ws.close().  The await is
\* outside any try: when it raises, the exception leaves the handler.
FinallyBackend(closeOk) ==
    /\ wsPc = "finally_backend"
    /\ IF backend_ws = "None"
       THEN wsPc' = "finally_client" /\ UNCHANGED <<backendConn, fault>>
       ELSE IF closeOk
            THEN /\ backendConn' = "closed"
                 /\ wsPc' = "finally_client"
                 /\ UNCHANGED fault
            ELSE /\ wsPc' = "raised"
                 /\ fault' = TRUE
                 /\ UNCHANGED backendConn
    /\ UNCHANGED <<backend_ws, clientConn, c2b, b2c, c2bData, b2cMsg,
                   clientOut, backendIn, backendOut, clientIn, clientSent,
                   backendSent, closeReason>>

\* Lines 299-303: websocket.close() with its exception suppressed.
FinallyClient ==
    /\ wsPc = "finally_client"
    /\ clientConn' = "closed"
    /\ wsPc' = "returned"
    /\ UNCHANGED <<backend_ws, backendConn, c2b, b2c, c2bData, b2cMsg,
                   clientOut, backendIn, backendOut, clientIn, clientSent,
                   backendSent, fault, closeReason>>

\* The peers.
ClientSend(kind, size) ==
    /\ clientConn = "open"
    /\ Len(clientSent) < MaxFrames
    /\ LET frame == [kind |-> kind, id |-> Len(clientSent) + 1,
                     size |-> size]
       IN  /\ clientOut' = Append(clientOut, frame)
           /\ clientSent' = Append(clientSent, frame)
    /\ UNCHANGED <<wsPc, backend_ws, clientConn, backendConn, c2b, b2c,
                   c2bData, b2cMsg, backendIn, backendOut, clientIn,
                   backendSent, fault, closeReason>>

BackendSend(kind, size) ==
    /\ backendConn = "open"
    /\ Len(backendSent) < MaxFrames
    /\ LET frame == [kind |-> kind, id |-> Len(backendSent) + 1,
                     size |-> size]
       IN  /\ backendOut' = Append(backendOut, frame)
           /\ backendSent' = Append(backendSent, frame)
    /\ UNCHANGED <<wsPc, backend_ws, clientConn, backendConn, c2b, b2c,
                   c2bData, b2cMsg, clientOut, backendIn, clientIn,
                   clientSent, fault, closeReason>>

ClientDisconnect ==
    /\ clientConn = "open"
    /\ clientConn' = "closed"
    /\ fault' = TRUE
    /\ UNCHANGED <<wsPc, backend_ws, backendConn, c2b, b2c, c2bData, b2cMsg,
                   clientOut, backendIn, backendOut, clientIn, clientSent,
                   backendSent, closeReason>>

BackendDisconnect ==
    /\ backendConn = "open"
    /\ backendConn' = "closed"
    /\ fault' = TRUE
    /\ UNCHANGED <<wsPc, backend_ws, clientConn, c2b, b2c, c2bData, b2cMsg,
                   clientOut, backendIn, backendOut, clientIn, clientSent,
                   backendSent, closeReason>>

(***************************************************************************)
(* offline_inference: one file-based inference job.                        *)
(***************************************************************************)
JOB_TIMEOUT == 300    \* seconds wait_for allows process.communicate()
JobTickStep == 150    \* seconds the clock advances while the job waits

VARIABLES
    jobPc,          \* position of the request: dependency, handler, done
    inputExists,    \* os.path.exists(input_path)
    inputWritten,   \* the handler has created the file at input_path
    outputExists,   \* os.path.exists(output_path)
    proc,           \* the subprocess: "none", "running", "exited"
    returncode,     \* process.returncode: "None", "0" or "1"
    elapsed,        \* seconds since wait_for started
    pending,        \* what the try block has decided, before the finally
    removeFailed,   \* os.remove(input_path) raised (a warning is logged)
    jobResult,      \* what the caller gets: a status or "exception"
    responseSent    \* the FileResponse body has been sent to the caller

jobVars == <<jobPc, inputExists, inputWritten, outputExists, proc,
             returncode, elapsed, pending, removeFailed, jobResult,
             responseSent>>

JobInit ==
    /\ jobPc = "idle"
    /\ inputExists = FALSE
    /\ inputWritten = FALSE
    /\ outputExists = FALSE
    /\ proc = "none"
    /\ returncode = "None"
    /\ elapsed = 0
    /\ pending = "none"
    /\ removeFailed = FALSE
    /\ jobResult = "none"
    /\ responseSent = FALSE

\* Lines 177-185 and 309: the verify_api_key dependency runs before the
\* handler; None becomes the 401 response and the handler never runs.
JobAdmit(x_api_key, wok) ==
    /\ jobPc = "idle"
    /\ ValidateKey(x_api_key, wok)
    /\ jobPc' = IF last'.result = "entry" THEN "write_input" ELSE "rejected"
    /\ jobResult' = CASE last'.result = "entry" -> "none"
                      [] last'.result = "None" -> "401"
                      [] OTHER -> "exception"
    /\ UNCHANGED <<inputExists, inputWritten, outputExists, proc, returncode,
                   elapsed, pending, removeFailed,
                   responseSent>>

\* Lines 342-345: read the upload and write it to input_path.  When the
\* write fails the file may already have been created.
JobWriteInput(ok, created) ==
    /\ jobPc = "write_input"
    /\ inputExists' = (ok \/ created)
    /\ inputWritten' = (ok \/ created)
    /\ IF ok
       THEN jobPc' = "spawn" /\ UNCHANGED pending
       ELSE jobPc' = "finally" /\ pending' = "exception"
    /\ UNCHANGED <<outputExists, proc, returncode, elapsed, removeFailed,
                   jobResult,
                   responseSent>>

\* Lines 358-363: asyncio.create_subprocess_exec starts the process or
\* raises.
JobSpawn(ok) ==
    /\ jobPc = "spawn"
    /\ IF ok
       THEN jobPc' = "wait" /\ proc' = "running" /\ UNCHANGED pending
       ELSE jobPc' = "finally" /\ pending' = "exception" /\ UNCHANGED proc
    /\ UNCHANGED <<inputExists, inputWritten, outputExists, returncode,
                   elapsed, removeFailed, jobResult,
                   responseSent>>

\* The clock advances while wait_for waits for the running process.
JobTick ==
    /\ jobPc = "wait"
    /\ proc = "running"
    /\ elapsed < JOB_TIMEOUT
    /\ elapsed' = elapsed + JobTickStep
    /\ UNCHANGED <<jobPc, inputExists, inputWritten, outputExists, proc,
                   returncode, pending, removeFailed, jobResult,
                   responseSent>>

\* The external command ends with an exit status, having written the file
\* at output_path or not.  Nothing in the handler stops it: it can end
\* while the handler waits or after the handler has gone on.
ProcExit(rc, wrote) ==
    /\ proc = "running"
    /\ proc' = "exited"
    /\ returncode' = rc
    /\ outputExists' = wrote
    /\ UNCHANGED <<jobPc, inputExists, inputWritten, elapsed, pending,
                   removeFailed, jobResult,
                   responseSent>>

\* Lines 368-389: what the handler decides once communicate() has returned.
JobOutcome_NoOutputCheck(rc, outExists) ==
    IF rc # "0" THEN "500_inference" ELSE "200"

JobOutcome(rc, outExists) ==
    IF rc # "0" THEN "500_inference"
    ELSE IF ~outExists THEN "500_no_output"
    ELSE "200"

\* Lines 364-389: communicate() returned within the deadline.
JobWaitDone ==
    /\ jobPc = "wait"
    /\ proc = "exited"
    /\ elapsed < JOB_TIMEOUT
    /\ pending' = JobOutcome(returncode, outputExists)
    /\ jobPc' = "finally"
    /\ UNCHANGED <<inputExists, inputWritten, outputExists, proc, returncode,
                   elapsed, removeFailed, jobResult,
                   responseSent>>

\* Lines 364-366 and 391-392: the deadline passes first; wait_for cancels
\* the communicate() call and raises TimeoutError, which becomes the 504
\* response.  Nothing here terminates the process: it keeps running.
JobTimeout ==
    /\ jobPc = "wait"
    /\ elapsed >= JOB_TIMEOUT
    /\ pending' = "504"
    /\ jobPc' = "finally"
    /\ UNCHANGED <<inputExists, inputWritten, outputExists, proc, returncode,
                   elapsed, removeFailed, jobResult,
                   responseSent>>

\* Lines 393-399: the finally block removes the input file when it exists;
\* an os.remove that raises is logged and ignored.  Then the handler
\* returns or raises what the try block decided.
InputAfterCleanup_OnlyOnSuccess(exists, rmOk, outcome) ==
    IF exists /\ rmOk /\ outcome = "200" THEN FALSE ELSE exists

InputAfterCleanup(exists, rmOk, outcome) ==
    IF exists /\ rmOk THEN FALSE ELSE exists

JobFinally(rmOk) ==
    /\ jobPc = "finally"
    /\ inputExists' = InputAfterCleanup(inputExists, rmOk, pending)
    /\ removeFailed' = (inputExists /\ ~rmOk)
    /\ jobResult' = pending
    /\ jobPc' = "done"
    /\ UNCHANGED <<inputWritten, outputExists, proc, returncode, elapsed,
                   pending,
                   responseSent>>

\* Lines 381-389: the handler has returned a FileResponse on output_path;
\* the server reads the file and sends it as the response body.  No step of
\* the gateway removes the file afterwards (lines 400-404).
JobSendFile ==
    /\ jobPc = "done"
    /\ jobResult = "200"
    /\ ~responseSent
    /\ responseSent' = TRUE
    /\ UNCHANGED <<jobPc, inputExists, inputWritten, outputExists, proc,
                   returncode, elapsed, pending, removeFailed, jobResult>>

(***************************************************************************)
(* Specifications.                                                         *)
(***************************************************************************)
vars == <<kmVars, relayVars, jobVars>>

Init == KmInit /\ RelayInit /\ JobInit

\* The key manager under every interleaving of its operations.
Next ==
    \/ \E k \in KeyPool, n \in Names, wok \in BOOLEAN :
            GenerateKey(k, n, wok) /\ UNCHANGED <<relayVars, jobVars>>
    \/ \E k \in KeyPool, wok \in BOOLEAN :
            ValidateKey(k, wok) /\ UNCHANGED <<relayVars, jobVars>>
    \/ \E k \in KeyPool, wok \in BOOLEAN :
            RevokeKey(k, wok) /\ UNCHANGED <<relayVars, jobVars>>
    \/ ListKeys /\ UNCHANGED <<relayVars, jobVars>>
    \/ Tick /\ UNCHANGED <<relayVars, jobVars>>

Spec == Init /\ [][Next]_vars

\* The steps of the websocket_stream handler and of its two tasks.
RelayStep ==
    \/ \E k \in KeyPool, wok \in BOOLEAN :
            WsAdmit(k, wok) /\ UNCHANGED jobVars
    \/ \E ok \in BOOLEAN : BackendConnect(ok) /\ UNCHANGED <<kmVars, jobVars>>
    \/ C2BRecv /\ UNCHANGED <<kmVars, jobVars>>
    \/ C2BSend /\ UNCHANGED <<kmVars, jobVars>>
    \/ B2CRecv /\ UNCHANGED <<kmVars, jobVars>>
    \/ B2CSend /\ UNCHANGED <<kmVars, jobVars>>
    \/ GatherReturn /\ UNCHANGED <<kmVars, jobVars>>
    \/ \E closeOk \in BOOLEAN : 
            FinallyBackend(closeOk) /\ UNCHANGED <<kmVars, jobVars>>
    \/ FinallyClient /\ UNCHANGED <<kmVars, jobVars>>

\* What the peers do.
PeerStep ==
    \/ \E kind \in Kinds, size \in Sizes :
            ClientSend(kind, size) /\ UNCHANGED <<kmVars, jobVars>>
    \/ \E kind \in Kinds, size \in Sizes :
            BackendSend(kind, size) /\ UNCHANGED <<kmVars, jobVars>>
    \/ ClientDisconnect /\ UNCHANGED <<kmVars, jobVars>>
    \/ BackendDisconnect /\ UNCHANGED <<kmVars, jobVars>>

RelayNext ==
    \/ \E k \in KeyPool, n \in Names, wok \in BOOLEAN :
            /\ wsPc = "idle"
            /\ GenerateKey(k, n, wok)
            /\ UNCHANGED <<relayVars, jobVars>>
    \/ RelayStep
    \/ PeerStep

RelaySpec == Init /\ [][RelayNext]_vars

\* The event loop runs every step of the handler and of its tasks that
\* stays ready; nothing is assumed of the peers or of new requests.
LoopStep(A) == A /\ UNCHANGED <<kmVars, jobVars>>

FairRelaySpec ==
    /\ RelaySpec
    /\ WF_vars(LoopStep(\E ok \in BOOLEAN : BackendConnect(ok)))
    /\ WF_vars(LoopStep(C2BRecv))
    /\ WF_vars(LoopStep(C2BSend))
    /\ WF_vars(LoopStep(B2CRecv))
    /\ WF_vars(LoopStep(B2CSend))
    /\ WF_vars(LoopStep(GatherReturn))
    /\ WF_vars(LoopStep(\E closeOk \in BOOLEAN : FinallyBackend(closeOk)))
    /\ WF_vars(LoopStep(FinallyClient))

\* One offline_inference request and the process it starts.
JobNext ==
    \/ \E k \in KeyPool, n \in Names, wok \in BOOLEAN :
            /\ jobPc = "idle"
            /\ GenerateKey(k, n, wok)
            /\ UNCHANGED <<relayVars, jobVars>>
    \/ \E k \in KeyPool, wok \in BOOLEAN :
            JobAdmit(k, wok) /\ UNCHANGED relayVars
    \/ \E ok \in BOOLEAN, created \in BOOLEAN :
            JobWriteInput(ok, created) /\ UNCHANGED <<kmVars, relayVars>>
    \/ \E ok \in BOOLEAN : JobSpawn(ok) /\ UNCHANGED <<kmVars, relayVars>>
    \/ JobTick /\ UNCHANGED <<kmVars, relayVars>>
    \/ \E rc \in {"0", "1"}, wrote \in BOOLEAN :
            ProcExit(rc, wrote) /\ UNCHANGED <<kmVars, relayVars>>
    \/ JobWaitDone /\ UNCHANGED <<kmVars, relayVars>>
    \/ JobTimeout /\ UNCHANGED <<kmVars, relayVars>>
    \/ \E rmOk \in BOOLEAN :
            JobFinally(rmOk) /\ UNCHANGED <<kmVars, relayVars>>
    \/ JobSendFile /\ UNCHANGED <<kmVars, relayVars>>

JobSpec == Init /\ [][JobNext]_vars

\* The event loop runs every step of the request that stays ready, and the
\* server sends the response the handler returned.
JobStep(A) == A /\ UNCHANGED <<kmVars, relayVars>>

FairJobSpec ==
    /\ JobSpec
    /\ WF_vars(JobStep(\E ok \in BOOLEAN, created \in BOOLEAN :
                            JobWriteInput(ok, created)))
    /\ WF_vars(JobStep(\E ok \in BOOLEAN : JobSpawn(ok)))
    /\ WF_vars(JobStep(JobWaitDone))
    /\ WF_vars(JobStep(JobTimeout))
    /\ WF_vars(JobStep(\E rmOk \in BOOLEAN : JobFinally(rmOk)))
    /\ WF_vars(JobStep(JobSendFile))

\* Concurrent requests from their arrival until their resources are
\* allocated: a streaming request and a job request are in flight together
\* with the key manager calls of other requests, in every order.  The
\* handlers are coroutines of one event loop and validate_key contains no
\* await, so each call of it is one step.  What the session and the job do
\* afterwards is RelaySpec and JobSpec.
AdmissionNext ==
    \/ \E k \in KeyPool, n \in Names, wok \in BOOLEAN :
            GenerateKey(k, n, wok) /\ UNCHANGED <<relayVars, jobVars>>
    \/ \E k \in KeyPool, wok \in BOOLEAN :
            ValidateKey(k, wok) /\ UNCHANGED <<relayVars, jobVars>>
    \/ \E k \in KeyPool, wok \in BOOLEAN :
            RevokeKey(k, wok) /\ UNCHANGED <<relayVars, jobVars>>
    \/ \E k \in KeyPool, wok \in BOOLEAN :
            WsAdmit(k, wok) /\ UNCHANGED jobVars
    \/ \E k \in KeyPool, wok \in BOOLEAN :
            JobAdmit(k, wok) /\ UNCHANGED relayVars
    \/ \E ok \in BOOLEAN : BackendConnect(ok) /\ UNCHANGED <<kmVars, jobVars>>
    \/ \E ok \in BOOLEAN, created \in BOOLEAN :
            JobWriteInput(ok, created) /\ UNCHANGED <<kmVars, relayVars>>
    \/ \E ok \in BOOLEAN : JobSpawn(ok) /\ UNCHANGED <<kmVars, relayVars>>

AdmissionSpec == Init /\ [][AdmissionNext]_vars

\* The key manager across a stop and a new start of the process.
CrashNext ==
    \/ \E k \in KeyPool, n \in Names, wok \in BOOLEAN :
            GenerateKey(k, n, wok) /\ UNCHANGED <<relayVars, jobVars>>
    \/ \E k \in KeyPool, wok \in BOOLEAN :
            ValidateKey(k, wok) /\ UNCHANGED <<relayVars, jobVars>>
    \/ \E k \in KeyPool, wok \in BOOLEAN :
            RevokeKey(k, wok) /\ UNCHANGED <<relayVars, jobVars>>
    \/ Restart /\ UNCHANGED <<relayVars, jobVars>>

CrashSpec == Init /\ [][CrashNext]_vars

(***************************************************************************)
(* Claims about APIKeyManager (specification Spec).                        *)
(***************************************************************************)

\* The record of a plaintext key is present and active.
IsActiveKey(k) ==
    /\ _hash_key(k) \in DOMAIN keys
    /\ keys[_hash_key(k)].active

\* C1: validate_key on a plaintext that generate_key has just returned (no
\* other call in between) is never denied: it returns the record, unless
\* its own write of the key file fails, and then it raises; once revoke_key
\* has been called on an issued plaintext, every later validate_key on it
\* returns None.
C1_IssueValidateRevoke ==
    /\ [][\A k \in KeyPool, wok \in BOOLEAN :
            (/\ last.op = "generate_key"
             /\ last.result = k
             /\ ValidateKey(k, wok))
                => last'.result = IF wok THEN "entry" ELSE "raise"]_vars
    /\ [][\A k \in KeyPool, wok \in BOOLEAN :
            (k \in revoked /\ ValidateKey(k, wok))
                => last'.result = "None"]_vars

\* A key that was issued, validated with success, revoked, and then denied.
C1_Witness ==
    /\ last.op = "validate_key"
    /\ last.result = "None"
    /\ last.key \in revoked
    /\ keys[_hash_key(last.key)].usage_count >= 1

\* Instants of `passed[k]` inside the half-open span [lo, hi).
PassedIn(k, lo, hi) ==
    Cardinality({i \in 1..Len(passed[k]) :
                    lo <= passed[k][i] /\ passed[k][i] < hi})

\* C2: per key, no span of 60 seconds [s, s + 60) holds more than
\* RATE_LIMIT_RPM calls that passed the rate check; a call on an active key
\* passes the rate check exactly when fewer than RATE_LIMIT_RPM calls passed
\* it in the trailing 60 seconds (so the first RATE_LIMIT_RPM calls pass, the
\* next one within the span is denied, and after 60 idle seconds
\* RATE_LIMIT_RPM calls pass again).
C2_RateWindow ==
    /\ [](\A k \in KeyPool : \A i \in 1..Len(passed[k]) :
            PassedIn(k, passed[k][i], passed[k][i] + WINDOW_SECONDS)
                <= RATE_LIMIT_RPM)
    /\ [][\A k \in KeyPool, wok \in BOOLEAN :
            (IsActiveKey(k) /\ ValidateKey(k, wok)) =>
                IF PassedIn(k, now - WINDOW_SECONDS + 1, now + 1)
                       < RATE_LIMIT_RPM
                THEN /\ last'.result # "None"
                     /\ passed'[k] = Append(passed[k], now)
                ELSE /\ last'.result = "None"
                     /\ passed' = passed]_vars

\* RATE_LIMIT_RPM calls passed, 60 idle seconds later RATE_LIMIT_RPM more,
\* and the call after those was denied.
C2_Witness ==
    \E k \in KeyPool :
        /\ IsActiveKey(k)
        /\ Len(passed[k]) = 2 * RATE_LIMIT_RPM
        /\ last = [op |-> "validate_key", key |-> k, result |-> "None"]

\* Timestamps of window w that are less than 60 seconds before t.
Recent(w, t) == {i \in 1..Len(w) : t - w[i] < WINDOW_SECONDS}

\* C3: a validate_key call on an absent or inactive record returns None and
\* changes neither the records nor the rate windows; a call that returns the
\* record has raised that record's usage_count by exactly 1 and stored its
\* window as the timestamps of the last 60 seconds plus exactly one new
\* timestamp, the current instant; no other record or window changes.
C3_SingleAdmission ==
    [][\A k \in KeyPool, wok \in BOOLEAN :
        ValidateKey(k, wok) =>
            LET h == _hash_key(k)
                w == IF h \in DOMAIN rate_tracker
                     THEN rate_tracker[h] ELSE <<>>
            IN  /\ ~IsActiveKey(k) =>
                      /\ last'.result = "None"
                      /\ keys' = keys
                      /\ rate_tracker' = rate_tracker
                /\ last'.result = "entry" =>
                      /\ keys'[h].usage_count = keys[h].usage_count + 1
                      /\ keys'[h].active = keys[h].active
                      /\ Len(rate_tracker'[h]) = Cardinality(Recent(w, now)) + 1
                      /\ rate_tracker'[h][Len(rate_tracker'[h])] = now
                      /\ \A i \in 1..(Len(rate_tracker'[h]) - 1) :
                            \E j \in Recent(w, now) :
                                rate_tracker'[h][i] = w[j]
                      /\ \A d \in DOMAIN keys \ {h} : keys'[d] = keys[d]
                      /\ \A d \in DOMAIN rate_tracker \ {h} :
                            rate_tracker'[d] = rate_tracker[d]]_vars

\* An admitted call that found only timestamps older than 60 seconds.
C3_Witness ==
    \E k \in KeyPool :
        /\ last = [op |-> "validate_key", key |-> k, result |-> "entry"]
        /\ keys[_hash_key(k)].usage_count = RATE_LIMIT_RPM + 1
        /\ Len(rate_tracker[_hash_key(k)]) = 1
        /\ \E k2 \in revoked : keys[_hash_key(k2)].usage_count = 0

\* C14: a generate_key or revoke_key call whose write of the key file fails
\* raises; whenever such a call has returned a success (the plaintext key,
\* or True), the key file holds exactly the records in memory.
C14_WriteFailureSurfaces ==
    /\ [](last.op \in {"generate_key", "revoke_key"}
            => (keys_file # keys => last.result \in {"raise", "False"}))
    /\ [][\A k \in KeyPool, n \in Names :
            (GenerateKey(k, n, FALSE) \/ RevokeKey(k, FALSE))
                => last'.result \in {"raise", "False"}]_vars

\* A revoke_key whose write failed: it raised, and the record is inactive in
\* memory while the key file still has it active.
C14_Witness ==
    /\ last.op = "revoke_key"
    /\ last.result = "raise"
    /\ ~keys[_hash_key(last.key)].active
    /\ keys_file[_hash_key(last.key)].active

\* C15: over any sequence of generate_key, validate_key, revoke_key and
\* list_keys calls, no record is ever removed and an inactive record never
\* becomes active again.
C15_RevocationOneWay ==
    [][\A h \in DOMAIN keys :
            /\ h \in DOMAIN keys'
            /\ ~keys[h].active => ~keys'[h].active]_vars

\* A revoked record that is still there, inactive, after it was revoked a
\* second time and a new key was generated.
C15_Witness ==
    \E k \in revoked :
        /\ ~keys[_hash_key(k)].active
        /\ keys[_hash_key(k)].usage_count >= 1
        /\ last.op = "generate_key"
        /\ last.result = last.key
        /\ last.key # k

\* The window stored for digest h, empty when there is none.
StoredWindow(h) == IF h \in DOMAIN rate_tracker THEN rate_tracker[h] ELSE <<>>

\* C19: a validate_key call on an active key whose window already holds
\* RATE_LIMIT_RPM timestamps of the last 60 seconds returns None and leaves
\* every stored window as it was; a stored window changes only in a
\* validate_key call that passed the rate check, and becomes the timestamps
\* of the last 60 seconds, in their order, followed by the current instant.
C19_DeniedLeavesWindow ==
    /\ [][\A k \in KeyPool, wok \in BOOLEAN :
            (/\ IsActiveKey(k)
             /\ Cardinality(Recent(StoredWindow(_hash_key(k)), now))
                    >= RATE_LIMIT_RPM
             /\ ValidateKey(k, wok))
                => /\ last'.result = "None"
                   /\ rate_tracker' = rate_tracker]_vars
    /\ [][rate_tracker' # rate_tracker =>
            \E k \in KeyPool :
                /\ last'.op = "validate_key"
                /\ last'.key = k
                /\ last'.result \in {"entry", "raise"}
                /\ DOMAIN rate_tracker' =
                        DOMAIN rate_tracker \cup {_hash_key(k)}
                /\ rate_tracker'[_hash_key(k)] =
                        Append(SelectSeq(StoredWindow(_hash_key(k)),
                                         LAMBDA x : now - x < WINDOW_SECONDS),
                               now)
                /\ \A d \in DOMAIN rate_tracker \ {_hash_key(k)} :
                        rate_tracker'[d] = rate_tracker[d]]_vars

\* A call denied by the rate limiter, after an admitted call had dropped a
\* timestamp older than 60 seconds from the window.
C19_Witness ==
    \E k \in KeyPool :
        /\ last = [op |-> "validate_key", key |-> k, result |-> "None"]
        /\ IsActiveKey(k)
        /\ Len(rate_tracker[_hash_key(k)]) = RATE_LIMIT_RPM
        /\ keys[_hash_key(k)].usage_count > RATE_LIMIT_RPM

\* C20: every digest with a rate window has a record, no stored window holds
\* more than RATE_LIMIT_RPM timestamps, and a validate_key call on a key
\* with no record or with a revoked record leaves the rate windows as they
\* were.
C20_TrackerBounded ==
    /\ [](/\ DOMAIN rate_tracker \subseteq DOMAIN keys
          /\ \A h \in DOMAIN rate_tracker :
                Len(rate_tracker[h]) <= RATE_LIMIT_RPM)
    /\ [][\A k \in KeyPool, wok \in BOOLEAN :
            (~IsActiveKey(k) /\ ValidateKey(k, wok))
                => rate_tracker' = rate_tracker]_vars

\* A key with no record was presented and denied while another key has a
\* full window; the tracker holds that one window only.
C20_Witness ==
    /\ last.op = "validate_key"
    /\ last.result = "None"
    /\ _hash_key(last.key) \notin DOMAIN keys
    /\ \E h \in DOMAIN rate_tracker : Len(rate_tracker[h]) = RATE_LIMIT_RPM
    /\ Cardinality(DOMAIN rate_tracker) = 1

(***************************************************************************)
(* Claims about the key file across a restart (CrashSpec).                 *)
(***************************************************************************)

\* C17: at every instant, for every key, the usage_count in the key file is
\* at most the number of rate checks that key has passed so far, and so is
\* the usage_count the process works with after a restart: a stop of the
\* process loses counts, it never adds any.
C17_PersistedUsageBehind ==
    \A k \in KeyPool :
        /\ _hash_key(k) \in DOMAIN keys_file
              => keys_file[_hash_key(k)].usage_count <= Len(passed[k])
        /\ _hash_key(k) \in DOMAIN keys
              => keys[_hash_key(k)].usage_count <= Len(passed[k])

\* After a restart the record of a key counts fewer calls than passed the
\* rate check: the write of the last one had failed.
C17_Witness ==
    \E k \in KeyPool :
        /\ last.op = "restart"
        /\ _hash_key(k) \in DOMAIN keys
        /\ keys[_hash_key(k)].usage_count >= 1
        /\ keys[_hash_key(k)].usage_count < Len(passed[k])

(***************************************************************************)
(* Claims about concurrent admissions (AdmissionSpec).                     *)
(***************************************************************************)

\* C13: whatever the order in which the streaming handler, the job handler
\* and other requests validate a key, the usage_count of its record equals
\* the number of calls that passed the rate check (each of them admitted,
\* or ended by the failure of its own write of the key file); no more than
\* RATE_LIMIT_RPM calls pass within the trailing 60 seconds; and the call
\* that takes the last free slot of a window leaves the window full, so
\* that the next call on that key is denied.
C13_NoLostUpdate ==
    /\ [](\A k \in KeyPool :
            /\ _hash_key(k) \in DOMAIN keys
                  => keys[_hash_key(k)].usage_count = Len(passed[k])
            /\ PassedIn(k, now - WINDOW_SECONDS + 1, now + 1)
                  <= RATE_LIMIT_RPM)
    /\ [][\A k \in KeyPool, wok \in BOOLEAN :
            (/\ IsActiveKey(k)
             /\ PassedIn(k, now - WINDOW_SECONDS + 1, now + 1)
                    = RATE_LIMIT_RPM - 1
             /\ ValidateKey(k, wok))
                => /\ last'.result # "None"
                   /\ Cardinality(Recent(rate_tracker'[_hash_key(k)], now'))
                         = RATE_LIMIT_RPM]_vars
    /\ [][\A k \in KeyPool, wok \in BOOLEAN :
            (/\ IsActiveKey(k)
             /\ _hash_key(k) \in DOMAIN rate_tracker
             /\ Cardinality(Recent(rate_tracker[_hash_key(k)], now))
                    = RATE_LIMIT_RPM
             /\ ValidateKey(k, wok))
                => last'.result = "None"]_vars

\* The streaming handler and the job handler validated the one key there
\* is; the streaming handler took the last slot and the job was denied.
C13_Witness ==
    \E k \in KeyPool :
        /\ DOMAIN keys = {_hash_key(k)}
        /\ IsActiveKey(k)
        /\ keys[_hash_key(k)].usage_count = RATE_LIMIT_RPM
        /\ wsPc = "connect"
        /\ jobPc = "rejected"
        /\ jobResult = "401"
        /\ last = [op |-> "validate_key", key |-> k, result |-> "None"]

\* C18: once the streaming handler has sent its denial it holds no backend
\* connection and no copy task, once the job request has been answered 401
\* no input file was written and no process started, and a validate_key
\* call that returns None leaves the records and the key file as they were.
C18_DenialAllocatesNothing ==
    /\ [](closeReason = DENIAL_REASON
            => /\ backend_ws = "None"
               /\ backendConn = "none"
               /\ c2b = "idle"
               /\ b2c = "idle")
    /\ [](jobResult = "401"
            => /\ ~inputWritten
               /\ ~inputExists
               /\ proc = "none")
    /\ [][\A k \in KeyPool, wok \in BOOLEAN :
            (ValidateKey(k, wok) /\ last'.result = "None")
                => keys' = keys /\ keys_file' = keys_file]_vars

\* Both requests were denied, one of them on a revoked key, while the
\* record of that key kept its usage_count.
C18_Witness ==
    /\ wsPc = "denied"
    /\ closeReason = DENIAL_REASON
    /\ jobPc = "rejected"
    /\ jobResult = "401"
    /\ last.op = "validate_key"
    /\ last.key \in revoked
    /\ keys[_hash_key(last.key)].usage_count >= 1

(***************************************************************************)
(* Claims about websocket_stream (RelaySpec, FairRelaySpec).               *)
(***************************************************************************)

\* C4 (as claimed): while the session relays, as soon as one copy direction
\* has terminated the handler can go on to close the endpoints, whatever
\* the other direction is doing.
C4_ClosesOnFirstTerminal ==
    (wsPc = "gather" /\ (c2b = "done" \/ b2c = "done"))
        => ENABLED GatherReturn

\* The handler has ended with both endpoints closed.
SessionClosed ==
    /\ wsPc = "returned"
    /\ clientConn = "closed"
    /\ backendConn \in {"none", "closed"}

\* C5 (as claimed): once an endpoint has closed while the session relays,
\* the session eventually ends with both endpoints closed, whatever the
\* surviving peer does (a close that raises is the matter of C6).
C5_PeerCloseEndsSession ==
    (wsPc = "gather" /\ (clientConn = "closed" \/ backendConn = "closed"))
        ~> (SessionClosed \/ wsPc = "raised")

\* C6 (as claimed): when the handler has ended after the accept, by return
\* or by exception, the client endpoint and the backend endpoint (if it was
\* opened) are closed.
C6_BothEndpointsClosed ==
    wsPc \in {"returned", "raised"}
        => clientConn = "closed" /\ backendConn \in {"none", "closed"}

\* The frame client_to_backend holds between its receive and its send.
C2BHeld == IF c2bData = NoFrame THEN <<>> ELSE <<c2bData>>

\* C7 (as claimed): with no fault induced, every frame the client has sent,
\* binary or text, is delivered to the backend, still held by the copy
\* task or still queued, in the order and with the kind it was sent.
C7_FramesForwarded ==
    ~fault => backendIn \o C2BHeld \o clientOut = clientSent

\* Why validate_key denied plaintext k, read from the records (a denial
\* changes none of them): no record, a revoked record, or a full window.
DenialCause(k) ==
    IF _hash_key(k) \notin DOMAIN keys THEN "invalid"
    ELSE IF ~keys[_hash_key(k)].active THEN "inactive"
    ELSE "rate_limited"

\* C12 (as claimed): a denied streaming admission carries the reason that
\* names its cause: invalid, inactive (a revoked key) or rate_limited.
C12_DenialReasonNamesCause ==
    wsPc = "denied" => closeReason = DenialCause(last.key)

\* C16 (as claimed): no frame above the maximum frame size is ever
\* forwarded, neither to the backend nor to the client.
C16_OversizeNeverForwarded ==
    /\ \A i \in 1..Len(backendIn) : backendIn[i].size <= MAX_SIZE
    /\ \A i \in 1..Len(clientIn) : clientIn[i].size <= MAX_SIZE

(***************************************************************************)
(* Claims about offline_inference (JobSpec).                               *)
(***************************************************************************)

\* C8 (as claimed): when a job is reported as timed out (504), its process
\* is no longer running and the input file has been removed, unless
\* os.remove failed.
C8_TimeoutKillsProcess ==
    (jobPc = "done" /\ jobResult = "504")
        => /\ proc # "running"
           /\ (inputExists => removeFailed)

\* C11 (as claimed): every job reported successful (200) eventually has its
\* response sent and its output file removed from the filesystem.
C11_OutputEventuallyRemoved ==
    (jobPc = "done" /\ jobResult = "200")
        ~> (responseSent /\ ~outputExists)

\* C9: a job is reported successful (200) only when the exit status is 0
\* and the output file exists, and a job whose command exited 0 within the
\* deadline without an output file is reported as the 500 "No output
\* generated" fault.
C9_MissingOutputIsFault ==
    jobPc = "done" =>
        /\ jobResult = "200" => (returncode = "0" /\ outputExists)
        /\ (jobResult # "504" /\ returncode = "0" /\ ~outputExists)
              => jobResult = "500_no_output"

\* The command exited 0 without an output file; the job reports the fault.
C9_Witness ==
    /\ jobPc = "done"
    /\ returncode = "0"
    /\ ~outputExists
    /\ jobResult = "500_no_output"

\* C10: when offline_inference has returned or raised, on whichever path,
\* the input file is gone, unless os.remove raised on it.
C10_InputRemoved ==
    jobPc = "done" => (~inputExists \/ removeFailed)

\* A timed-out job whose input file was written and has been removed.
C10_Witness ==
    /\ jobPc = "done"
    /\ jobResult = "504"
    /\ inputWritten
    /\ ~inputExists
    /\ ~removeFailed

====
